---- MODULE Spec2Model ----
(***************************************************************************)
(* Model of compare.py: the pattern-brained vs simple experiment harness.  *)
(* One process runs main(): it walks the problem catalog, asks the         *)
(* completion service twice per problem, writes two artifact files per     *)
(* problem, then the full report, then prints the summary.  The service,   *)
(* the filesystem and the clock are the environment: every call, mkdir and *)
(* write may fail, and a failure is an uncaught exception that ends the    *)
(* process.  Runs follow each other on the same filesystem.                *)
(***************************************************************************)
EXTENDS Integers, Sequences, FiniteSets, TLC

\* Bounds of the model.
MaxCatalog == 2     \* the catalog is a prefix of PROBLEMS of 1..MaxCatalog entries
RunsCatalog == 1    \* entries of the catalog in the multi-run specification
MaxRuns == 2        \* invocations of main() in the multi-run specification

VARIABLES
    env,             \* the environment's range: responses, datetimes, number of runs
    catalog,         \* PROBLEMS as iterated by main
    run,             \* number of invocations of main() started so far
    pc,              \* position of the current process in main()
    error,           \* the uncaught exception that ended the process, or "none"
    i,               \* number of catalog entries the for loop has taken
    timestamp,       \* main's local `timestamp`
    results,         \* main's local `results`
    pattern_result,  \* main's local `pattern_result`
    simple_result,   \* main's local `simple_result`
    stdout,          \* lines printed by the current process
    dirs,            \* directories that exist
    files,           \* path -> content of the files that exist
    outstanding,     \* requests sent to the service and not yet answered
    calls,           \* requests issued by the current process, in order
    responses,       \* service answers received by the current process, in order
    written,         \* paths the current process has opened for writing
    started,         \* the second in which each process read the clock at line 120
    history          \* completed report writes of earlier and current processes

vars == <<env, catalog, run, pc, error, i, timestamp, results,
          pattern_result, simple_result, stdout, dirs, files, outstanding,
          calls, responses, written, started, history>>

----------------------------------------------------------------------------
\* Static data of the module (lines 14-87).

SYSTEM_PATTERN_BRAINED == "You are an expert software engineer who believes strongly in design patterns and proper software architecture."

SYSTEM_SIMPLE == "You are a pragmatic software engineer who values simplicity above all."

PROBLEMS == <<
    [id |-> "fizzbuzz", name |-> "FizzBuzz",
     prompt |-> "Write a function that prints numbers from 1 to 100. For multiples of 3, print 'Fizz'. For multiples of 5, print 'Buzz'. For multiples of both, print 'FizzBuzz'."],
    [id |-> "reverse_string", name |-> "Reverse String",
     prompt |-> "Write a function that reverses a string."],
    [id |-> "fibonacci", name |-> "Fibonacci",
     prompt |-> "Write a function that returns the nth Fibonacci number."],
    [id |-> "palindrome", name |-> "Palindrome Checker",
     prompt |-> "Write a function that checks if a string is a palindrome."],
    [id |-> "todo_list", name |-> "Todo List",
     prompt |-> "Write a simple todo list application with add, remove, and list functionality."],
    [id |-> "calculator", name |-> "Calculator",
     prompt |-> "Write a calculator that supports add, subtract, multiply, and divide operations."],
    [id |-> "user_validator", name |-> "User Validator",
     prompt |-> "Write code to validate user registration data: email must be valid format, password must be at least 8 characters with a number, username must be alphanumeric."],
    [id |-> "file_processor", name |-> "File Processor",
     prompt |-> "Write code that reads a CSV file and outputs JSON with the same data."],
    [id |-> "rate_limiter", name |-> "Rate Limiter",
     prompt |-> "Write a rate limiter that allows max N requests per minute for a given user ID."],
    [id |-> "shopping_cart", name |-> "Shopping Cart",
     prompt |-> "Write a shopping cart that can add items, remove items, apply discount codes, and calculate totals."]
>>

output_dir == <<"outputs">>

None == [none |-> TRUE]

----------------------------------------------------------------------------
\* The environment.

\* A Message of the service: content blocks and usage accounting.
Message(text, n) == [content |-> <<[text |-> text]>>, usage |-> [output_tokens |-> n]]

\* An answer without content blocks: response.content[0] raises IndexError.
EmptyMessage == [content |-> <<>>, usage |-> [output_tokens |-> 0]]

\* Answers of the single-run specification: output sizes that make the
\* totals zero, equal, exact ratios, and ratios that fall on a rounding tie.
RichService ==
    { Message("pass", 0), Message("def f(): pass", 1), Message("class A: pass", 20),
      Message("def g(): return 1", 50), Message("class B: pass", 100),
      Message("class C: pass", 300), EmptyMessage }

\* Answers of the multi-run specification.
SmallService == { Message("pass", 0), Message("class A: pass", 20), EmptyMessage }

\* The second, at one-second resolution, in which a datetime falls.
SecondOf(dt) == <<dt.year, dt.month, dt.day, dt.hour, dt.minute, dt.second>>

Datetime(mi, s, us) ==
    [year |-> 2026, month |-> 1, day |-> 5, hour |-> 9,
     minute |-> mi, second |-> s, microsecond |-> us]

\* Values datetime.now() may return: two instants of one second and an
\* instant of another second of the same minute.
Clock == { Datetime(7, 5, 0), Datetime(7, 5, 500000), Datetime(7, 30, 0) }

----------------------------------------------------------------------------
\* Library functions, as CPython computes them.

Pad2(n) == IF n < 10 THEN "0" \o ToString(n) ELSE ToString(n)

\* The format without %S.
strftime_NoSeconds(dt) ==
    ToString(dt.year) \o Pad2(dt.month) \o Pad2(dt.day) \o "_"
        \o Pad2(dt.hour) \o Pad2(dt.minute)

\* datetime.strftime with "%Y%m%d_%H%M%S".
strftime(dt) ==
    ToString(dt.year) \o Pad2(dt.month) \o Pad2(dt.day) \o "_"
        \o Pad2(dt.hour) \o Pad2(dt.minute) \o Pad2(dt.second)

\* Sign of RN(a/b) - a/b for a, b > 0, where RN rounds to the nearest double
\* (53 significant bits, ties to even): binary long division of a by b.
RECURSIVE Scale(_, _)
Scale(a, b) ==
    \* <<a', b'>> with a'/b' = a/b * 2^k and 1 <= a'/b' < 2
    IF a < b THEN Scale(2 * a, b) ELSE IF a >= 2 * b THEN Scale(a, 2 * b) ELSE <<a, b>>

RECURSIVE Mantissa(_, _, _, _)
Mantissa(r, b, bit, n) ==
    \* remainder and last bit after n more quotient bits
    IF n = 0 THEN <<r, bit>>
    ELSE IF 2 * r >= b THEN Mantissa(2 * r - b, b, 1, n - 1)
    ELSE Mantissa(2 * r, b, 0, n - 1)

DoubleError(a, b) ==
    LET ab == Scale(a, b)
        m == Mantissa(ab[1] - ab[2], ab[2], 1, 52)
        r == m[1]
        d == ab[2]
    IN  IF r = 0 THEN 0
        ELSE IF 2 * r > d THEN 1
        ELSE IF 2 * r < d THEN -1
        ELSE IF m[2] = 1 THEN 1 ELSE -1

\* Hundredths printed by format(a / b, ".2f"), b > 0: the double a / b is
\* rendered correctly rounded, ties (an exactly representable x.xx5) to even.
Hundredths(a, b) ==
    LET q == (100 * a) \div b
        rem == (100 * a) % b
    IN  IF 2 * rem < b THEN q
        ELSE IF 2 * rem > b THEN q + 1
        ELSE LET e == DoubleError(a, b)
             IN  IF e > 0 THEN q + 1
                 ELSE IF e < 0 THEN q
                 ELSE IF q % 2 = 0 THEN q ELSE q + 1

Format2f(h) == ToString(h \div 100) \o "." \o Pad2(h % 100)

\* The file opened with mode 'a'.
write_text_Append(fs, path, data) ==
    [p \in DOMAIN fs \cup {path} |->
        IF p # path THEN fs[p]
        ELSE IF path \in DOMAIN fs THEN [old |-> fs[path], appended |-> data] ELSE data]

\* Path.write_text: open(mode='w') truncates or creates, then writes all of data.
write_text(fs, path, data) ==
    [p \in DOMAIN fs \cup {path} |-> IF p = path THEN data ELSE fs[p]]

\* What a file holds when the write after a successful open failed.
Truncated == [truncated |-> TRUE]

\* Outcomes of a write_text that raises OSError: the open failed and nothing
\* changed, or the file was created or truncated and the data did not arrive.
write_text_raises(fs, path) == { fs, write_text(fs, path, Truncated) }

\* The sum without the style filter.
RECURSIVE sum_output_tokens_AllStyles(_, _)
sum_output_tokens_AllStyles(rs, style) ==
    IF rs = <<>> THEN 0
    ELSE Head(rs).output_tokens + sum_output_tokens_AllStyles(Tail(rs), style)

\* sum(r["output_tokens"] for r in results if r["style"] == style)
RECURSIVE sum_output_tokens(_, _)
sum_output_tokens(rs, style) ==
    IF rs = <<>> THEN 0
    ELSE (IF Head(rs).style = style THEN Head(rs).output_tokens ELSE 0)
            + sum_output_tokens(Tail(rs), style)

----------------------------------------------------------------------------
\* Paths and file contents of main().

problem_dir(problem) == Append(output_dir, problem.id)

pattern_path(problem) == Append(problem_dir(problem), "pattern_brained.py.md")

simple_path(problem) == Append(problem_dir(problem), "simple.py.md")

results_file(ts) == Append(output_dir, "results_" \o ts \o ".json")

\* The f-string of lines 140-143 and 147-150, by its four interpolated parts.
Artifact(problem, title, result) ==
    [title |-> problem.name \o " - " \o title,
     prompt |-> problem.prompt,
     output_tokens |-> result.output_tokens,
     response |-> result.response]

\* json.dumps(results, indent=2) of line 158: the serialized list, in order.
dumps(rs) == [json |-> rs]

\* The request of lines 94-101.
Request(problem, system_prompt) ==
    [model |-> "claude-sonnet-4-20250514",
     max_tokens |-> 4096,
     system |-> system_prompt,
     messages |-> <<[role |-> "user",
                     content |-> problem.prompt \o "\n\nPlease write this in Python."]>>]

\* The dict returned at lines 106-113.
RunResult(problem, style_name, response) ==
    [problem_id |-> problem["id"],
     problem_name |-> problem["name"],
     prompt |-> problem["prompt"],
     style |-> style_name,
     response |-> response.content[1].text,
     output_tokens |-> response.usage.output_tokens]

problem == catalog[i]

----------------------------------------------------------------------------
\* Initial states.

InitProcess ==
    /\ run = 0
    /\ pc = "idle"
    /\ error = "none"
    /\ i = 0
    /\ timestamp = ""
    /\ results = <<>>
    /\ pattern_result = None
    /\ simple_result = None
    /\ stdout = <<>>
    /\ dirs = {}
    /\ files = <<>>
    /\ outstanding = {}
    /\ calls = <<>>
    /\ responses = <<>>
    /\ written = {}
    /\ started = {}
    /\ history = {}

\* One invocation on an empty working directory.
Init ==
    /\ env = [service |-> RichService, clock |-> {Datetime(7, 5, 500000)}, runs |-> 1]
    /\ catalog \in { SubSeq(PROBLEMS, 1, n) : n \in 1..MaxCatalog }
    /\ InitProcess

\* Repeated invocations on the same working directory.
InitRuns ==
    /\ env = [service |-> SmallService, clock |-> Clock, runs |-> MaxRuns]
    /\ catalog \in { SubSeq(PROBLEMS, 1, RunsCatalog) }
    /\ InitProcess

----------------------------------------------------------------------------
\* The process.

\* The exception caught and the loop resumed with the next problem.
Raise_Swallow(exc) ==
    /\ pc' = "for"
    /\ error' = exc

\* An uncaught exception: the traceback is printed and the process exits 1.
Raise(exc) ==
    /\ pc' = "failed"
    /\ error' = exc

\* Process start and lines 117-118: output_dir.mkdir(exist_ok=True).
main_mkdir ==
    /\ pc \in {"idle", "done", "failed"}
    /\ run < env.runs
    /\ run' = run + 1
    /\ i' = 0
    /\ timestamp' = ""
    /\ results' = <<>>
    /\ pattern_result' = None
    /\ simple_result' = None
    /\ stdout' = <<>>
    /\ calls' = <<>>
    /\ responses' = <<>>
    /\ written' = {}
    /\ \/ /\ dirs' = dirs \cup {output_dir}
          /\ pc' = "timestamp"
          /\ error' = "none"
       \/ /\ Raise("OSError")
          /\ UNCHANGED dirs
    /\ UNCHANGED <<env, catalog, files, outstanding, started, history>>

\* Lines 120-123.
main_timestamp ==
    /\ pc = "timestamp"
    /\ \E dt \in env.clock :
        /\ timestamp' = strftime(dt)
        /\ started' = started \cup {[run |-> run, second |-> SecondOf(dt)]}
    /\ results' = <<>>
    /\ stdout' = Append(stdout, "Running pattern-brained vs simple comparison...\n")
    /\ pc' = "for"
    /\ UNCHANGED <<env, catalog, run, error, i, pattern_result, simple_result,
                   dirs, files, outstanding, calls, responses, written, history>>

\* The loop left for the summary, the report not written.
main_for_SummaryFirst ==
    /\ pc = "for"
    /\ IF i < Len(catalog)
       THEN /\ i' = i + 1
            /\ stdout' = Append(stdout, "Problem: " \o catalog[i + 1].name)
            /\ pc' = "call_pattern"
       ELSE /\ pc' = "summary"
            /\ UNCHANGED <<i, stdout>>
    /\ UNCHANGED <<env, catalog, run, error, timestamp, results, pattern_result,
                   simple_result, dirs, files, outstanding, calls, responses,
                   written, started, history>>

\* Lines 125-126: the for statement takes the next problem or leaves the loop.
main_for ==
    /\ pc = "for"
    /\ IF i < Len(catalog)
       THEN /\ i' = i + 1
            /\ stdout' = Append(stdout, "Problem: " \o catalog[i + 1].name)
            /\ pc' = "call_pattern"
       ELSE /\ pc' = "write_results"
            /\ UNCHANGED <<i, stdout>>
    /\ UNCHANGED <<env, catalog, run, error, timestamp, results, pattern_result,
                   simple_result, dirs, files, outstanding, calls, responses,
                   written, started, history>>

\* Lines 92-101: run_problem prints and sends the request.
run_problem_send(at, system_prompt, style_name, next) ==
    /\ pc = at
    /\ stdout' = Append(stdout, "  Running " \o problem.name \o " (" \o style_name \o ")...")
    /\ outstanding' = outstanding \cup {Request(problem, system_prompt)}
    /\ calls' = Append(calls, [problem_id |-> problem.id, style |-> style_name,
                               request |-> Request(problem, system_prompt)])
    /\ pc' = next
    /\ UNCHANGED <<env, catalog, run, error, i, timestamp, results, pattern_result,
                   simple_result, dirs, files, responses, written, started, history>>

\* Lines 94-113: the service answers; run_problem builds the result, or
\* response.content[0] raises IndexError on an answer without content.
run_problem_return(at, style_name, next) ==
    /\ pc = at
    /\ \E response \in env.service :
        /\ responses' = Append(responses, response)
        /\ outstanding' = {}
        /\ IF response.content = <<>>
           THEN /\ Raise("IndexError")
                /\ UNCHANGED <<pattern_result, simple_result>>
           ELSE /\ pc' = next
                /\ UNCHANGED error
                /\ IF style_name = "pattern_brained"
                   THEN /\ pattern_result' = RunResult(problem, style_name, response)
                        /\ UNCHANGED simple_result
                   ELSE /\ simple_result' = RunResult(problem, style_name, response)
                        /\ UNCHANGED pattern_result
    /\ UNCHANGED <<env, catalog, run, i, timestamp, results, stdout, dirs, files,
                   calls, written, started, history>>

\* Line 94: client.messages.create raises (network, authentication, API error).
run_problem_raise(at) ==
    /\ pc = at
    /\ outstanding' = {}
    /\ Raise("APIError")
    /\ UNCHANGED <<env, catalog, run, i, timestamp, results, pattern_result,
                   simple_result, stdout, dirs, files, calls, responses, written, started, history>>

\* Line 129.
call_pattern == run_problem_send("call_pattern", SYSTEM_PATTERN_BRAINED, "pattern_brained", "await_pattern")

return_pattern == run_problem_return("await_pattern", "pattern_brained", "call_simple")

raise_pattern == run_problem_raise("await_pattern")

\* The pattern artifact written before the simple call is made.
call_simple_WritesPatternFirst ==
    /\ pc = "call_simple"
    /\ files' = write_text(files, pattern_path(problem),
                           Artifact(problem, "Pattern Brained", pattern_result))
    /\ written' = written \cup {pattern_path(problem)}
    /\ stdout' = Append(stdout, "  Running " \o problem.name \o " (simple)...")
    /\ outstanding' = outstanding \cup {Request(problem, SYSTEM_SIMPLE)}
    /\ calls' = Append(calls, [problem_id |-> problem.id, style |-> "simple",
                               request |-> Request(problem, SYSTEM_SIMPLE)])
    /\ pc' = "await_simple"
    /\ UNCHANGED <<env, catalog, run, error, i, timestamp, results, pattern_result,
                   simple_result, dirs, responses, started, history>>

\* Line 130.
call_simple == run_problem_send("call_simple", SYSTEM_SIMPLE, "simple", "await_simple")

return_simple == run_problem_return("await_simple", "simple", "append")

\* The failed simple call tried again.
raise_simple_Retry ==
    /\ pc = "await_simple"
    /\ outstanding' = {}
    /\ pc' = "call_simple"
    /\ UNCHANGED <<env, catalog, run, error, i, timestamp, results, pattern_result,
                   simple_result, stdout, dirs, files, calls, responses, written, started, history>>

raise_simple == run_problem_raise("await_simple")

\* The two results appended in the other order.
main_append_Swapped ==
    /\ pc = "append"
    /\ results' = Append(Append(results, simple_result), pattern_result)
    /\ pc' = "problem_mkdir"
    /\ UNCHANGED <<env, catalog, run, error, i, timestamp, pattern_result,
                   simple_result, stdout, dirs, files, outstanding, calls, responses,
                   written, started, history>>

\* Lines 132-133.
main_append ==
    /\ pc = "append"
    /\ results' = Append(Append(results, pattern_result), simple_result)
    /\ pc' = "problem_mkdir"
    /\ UNCHANGED <<env, catalog, run, error, i, timestamp, pattern_result,
                   simple_result, stdout, dirs, files, outstanding, calls, responses,
                   written, started, history>>

\* A failed mkdir ignored and the problem's artifacts skipped.
main_problem_mkdir_IgnoreError ==
    /\ pc = "problem_mkdir"
    /\ \/ /\ dirs' = dirs \cup {problem_dir(problem)}
          /\ pc' = "write_pattern"
       \/ /\ pc' = "for"
          /\ UNCHANGED dirs
    /\ UNCHANGED <<env, catalog, run, error, i, timestamp, results, pattern_result,
                   simple_result, stdout, files, outstanding, calls, responses,
                   written, started, history>>

\* Lines 136-137: problem_dir.mkdir(exist_ok=True).
main_problem_mkdir ==
    /\ pc = "problem_mkdir"
    /\ \/ /\ dirs' = dirs \cup {problem_dir(problem)}
          /\ pc' = "write_pattern"
          /\ UNCHANGED error
       \/ /\ Raise("OSError")
          /\ UNCHANGED dirs
    /\ UNCHANGED <<env, catalog, run, i, timestamp, results, pattern_result,
                   simple_result, stdout, files, outstanding, calls, responses,
                   written, started, history>>

\* Lines 139-144.
main_write_pattern ==
    /\ pc = "write_pattern"
    /\ \/ /\ files' = write_text(files, pattern_path(problem),
                                 Artifact(problem, "Pattern Brained", pattern_result))
          /\ written' = written \cup {pattern_path(problem)}
          /\ pc' = "write_simple"
          /\ UNCHANGED error
       \/ /\ files' \in write_text_raises(files, pattern_path(problem))
          /\ written' = IF files' = files THEN written
                        ELSE written \cup {pattern_path(problem)}
          /\ Raise("OSError")
    /\ UNCHANGED <<env, catalog, run, i, timestamp, results, pattern_result,
                   simple_result, stdout, dirs, outstanding, calls, responses, started, history>>

\* Lines 146-154.
main_write_simple ==
    /\ pc = "write_simple"
    /\ \/ /\ files' = write_text(files, simple_path(problem),
                                 Artifact(problem, "Simple", simple_result))
          /\ written' = written \cup {simple_path(problem)}
          /\ stdout' = stdout \o
                <<"  Pattern: " \o ToString(pattern_result["output_tokens"])
                    \o " tokens, Simple: " \o ToString(simple_result["output_tokens"])
                    \o " tokens", "">>
          /\ pc' = "for"
          /\ UNCHANGED error
       \/ /\ files' \in write_text_raises(files, simple_path(problem))
          /\ written' = IF files' = files THEN written
                        ELSE written \cup {simple_path(problem)}
          /\ Raise("OSError")
          /\ UNCHANGED stdout
    /\ UNCHANGED <<env, catalog, run, i, timestamp, results, pattern_result,
                   simple_result, dirs, outstanding, calls, responses, started, history>>

\* The second in which the current process read the clock.
StartSecond == (CHOOSE s \in started : s.run = run).second

\* Lines 157-158.
main_write_results ==
    /\ pc = "write_results"
    /\ \/ /\ files' = write_text(files, results_file(timestamp), dumps(results))
          /\ written' = written \cup {results_file(timestamp)}
          /\ history' = history \cup {[run |-> run, second |-> StartSecond,
                                       results_file |-> results_file(timestamp),
                                       results |-> results]}
          /\ pc' = "summary"
          /\ UNCHANGED error
       \/ /\ files' \in write_text_raises(files, results_file(timestamp))
          /\ written' = IF files' = files THEN written
                        ELSE written \cup {results_file(timestamp)}
          /\ Raise("OSError")
          /\ UNCHANGED history
    /\ UNCHANGED <<env, catalog, run, i, timestamp, results, pattern_result,
                   simple_result, stdout, dirs, outstanding, calls, responses, started>>

\* Lines 160-173: the summary; the division of line 170 raises
\* ZeroDivisionError when simple_tokens is 0, after lines 161-169 have printed.
main_summary ==
    /\ pc = "summary"
    /\ LET pattern_tokens == sum_output_tokens(results, "pattern_brained")
           simple_tokens == sum_output_tokens(results, "simple")
           head == stdout \o
                    <<"\n============================================================",
                      "SUMMARY",
                      "============================================================",
                      "Total pattern-brained tokens: " \o ToString(pattern_tokens),
                      "Total simple tokens: " \o ToString(simple_tokens)>>
       IN  IF simple_tokens = 0
           THEN /\ stdout' = head
                /\ Raise("ZeroDivisionError")
           ELSE /\ stdout' = head \o
                    <<"Ratio: " \o Format2f(Hundredths(pattern_tokens, simple_tokens)) \o "x",
                      "",
                      "Results saved to outputs/",
                      "Full JSON: outputs/results_" \o timestamp \o ".json">>
                /\ pc' = "done"
                /\ UNCHANGED error
    /\ UNCHANGED <<env, catalog, run, i, timestamp, results, pattern_result,
                   simple_result, dirs, files, outstanding, calls, responses,
                   written, started, history>>

Next ==
    \/ main_mkdir
    \/ main_timestamp
    \/ main_for
    \/ call_pattern
    \/ return_pattern
    \/ raise_pattern
    \/ call_simple
    \/ return_simple
    \/ raise_simple
    \/ main_append
    \/ main_problem_mkdir
    \/ main_write_pattern
    \/ main_write_simple
    \/ main_write_results
    \/ main_summary

Spec == Init /\ [][Next]_vars

SpecRuns == InitRuns /\ [][Next]_vars

\* Exit status of the last process: 0 when main() returned, 1 after an
\* uncaught exception.
ExitCode == IF pc = "done" THEN 0 ELSE IF pc = "failed" THEN 1 ELSE -1

----------------------------------------------------------------------------
\* Properties.

N == Len(catalog)

\* rs holds, for each of the first k problems, the pattern result then the
\* simple result.
InCatalogOrder(rs, k) ==
    /\ Len(rs) = 2 * k
    /\ \A j \in 1..k :
        /\ rs[2 * j - 1].problem_id = catalog[j].id
        /\ rs[2 * j - 1].style = "pattern_brained"
        /\ rs[2 * j].problem_id = catalog[j].id
        /\ rs[2 * j].style = "simple"

\* Both artifact files of problem j hold what the current process got for it.
ArtifactsWritten(j) ==
    /\ 2 * j <= Len(results)
    /\ pattern_path(catalog[j]) \in DOMAIN files
    /\ simple_path(catalog[j]) \in DOMAIN files
    /\ files[pattern_path(catalog[j])] =
            [title |-> catalog[j].name \o " - Pattern Brained",
             prompt |-> catalog[j].prompt,
             output_tokens |-> results[2 * j - 1].output_tokens,
             response |-> results[2 * j - 1].response]
    /\ files[simple_path(catalog[j])] =
            [title |-> catalog[j].name \o " - Simple",
             prompt |-> catalog[j].prompt,
             output_tokens |-> results[2 * j].output_tokens,
             response |-> results[2 * j].response]

\* The main() of the current process got past the loop.
LoopCompleted == pc \in {"write_results", "summary", "done"} \/ error = "ZeroDivisionError"

\* C1: when the loop has processed the whole catalog the result sequence has
\* 2*N entries, for each problem in catalog order its pattern_brained result
\* and then its simple result; and at the end of iteration k the sequence has
\* this shape for the first k problems.
C1_ResultsInCatalogOrder ==
    /\ pc = "for" => InCatalogOrder(results, i)
    /\ pc \in {"write_results", "summary", "done"} => InCatalogOrder(results, N)

C1_Witness == pc = "done" /\ N = 2 /\ Len(results) = 4

\* The k-th request of a run over the catalog.
ExpectedCall(k) ==
    LET p == catalog[(k + 1) \div 2]
    IN  IF k % 2 = 1
        THEN [problem_id |-> p.id, style |-> "pattern_brained",
              request |-> Request(p, SYSTEM_PATTERN_BRAINED)]
        ELSE [problem_id |-> p.id, style |-> "simple",
              request |-> Request(p, SYSTEM_SIMPLE)]

\* C2: the requests issued by a run are a prefix of pattern(p1), simple(p1),
\* ..., pattern(pN), simple(pN); at most one request is outstanding; a request
\* is issued only after every earlier one has returned a usable answer; no
\* (problem, style) pair is requested twice; the request that failed is the
\* last one issued.
C2_RequestsSequential ==
    /\ Len(calls) <= 2 * N
    /\ \A k \in 1..Len(calls) : calls[k] = ExpectedCall(k)
    /\ \A j, k \in 1..Len(calls) :
        j < k => <<calls[j].problem_id, calls[j].style>> # <<calls[k].problem_id, calls[k].style>>
    /\ Cardinality(outstanding) <= 1
    /\ outstanding # {} => outstanding = {calls[Len(calls)].request}
    /\ Len(responses) <= Len(calls)
    /\ Len(calls) <= Len(responses) + 1
    /\ outstanding # {} => Len(calls) = Len(responses) + 1
    /\ \A k \in 1..Len(calls) - 1 : responses[k].content # <<>>
    /\ error = "APIError" => Len(calls) = Len(responses) + 1 /\ outstanding = {}
    /\ error = "IndexError" =>
            Len(calls) = Len(responses) /\ responses[Len(calls)].content = <<>>

C2_Witness == pc = "failed" /\ error = "APIError" /\ Len(calls) = 3

\* C3: when the run fails while processing problem k (i = k), the process has
\* ended with a non-zero exit status, the artifacts of problems 1..k-1 hold
\* what the run wrote, no request and no artifact write was made for problems
\* k+1..N, and nothing is done afterwards.
C3_FailureState ==
    error # "none" =>
        /\ pc = "failed"
        /\ ExitCode = 1
        /\ \A j \in 1..N :
            /\ j < i => ArtifactsWritten(j)
            /\ j > i =>
                /\ \A k \in 1..Len(calls) : calls[k].problem_id # catalog[j].id
                /\ pattern_path(catalog[j]) \notin written \cup DOMAIN files
                /\ simple_path(catalog[j]) \notin written \cup DOMAIN files

C3_FailureStops ==
    /\ []C3_FailureState
    /\ [][error # "none" /\ run' = run =>
            UNCHANGED <<pc, error, files, dirs, calls, responses, written, outstanding>>]_vars

C3_Witness ==
    /\ pc = "failed"
    /\ error \in {"APIError", "IndexError", "OSError"}
    /\ i = 2
    /\ ArtifactsWritten(1)

\* The second call of the run, the simple call of problem 1, failed.
SecondCallFailed ==
    /\ pc = "failed"
    /\ error \in {"APIError", "IndexError"}
    /\ i = 1
    /\ Len(calls) = 2

\* C4 as stated: after the simple call of problem 1 failed on an empty output
\* directory, exactly the pattern artifact of problem 1 is on disk.
C4_PatternArtifactSurvives ==
    SecondCallFailed => DOMAIN files = {pattern_path(catalog[1])}

\* C4: after the simple call of problem 1 failed on an empty output directory,
\* the process has aborted and no file is on disk, neither a report nor an
\* artifact: the pattern result was held in memory only.
C4_NothingOnDisk ==
    SecondCallFailed =>
        /\ ExitCode = 1
        /\ DOMAIN files = {}
        /\ written = {}

C4_Witness ==
    /\ SecondCallFailed
    /\ pattern_result # None
    /\ pattern_result.problem_id = catalog[1].id
    /\ dirs = {output_dir}

\* Sum of the output sizes the service reported in its answers number
\* first, first + 2, ... of the current run.
RECURSIVE ReportedTotal(_)
ReportedTotal(first) ==
    IF first > Len(responses) THEN 0
    ELSE responses[first].usage.output_tokens + ReportedTotal(first + 2)

\* Every call of the run was answered and the report was written.
AllCallsSucceeded ==
    /\ Len(responses) = 2 * N
    /\ \A k \in 1..Len(responses) : responses[k].content # <<>>
    /\ \E h \in history : h.run = run

\* C5: when all calls succeeded and the simple total is 0 the summary step does
\* not crash and the run completes with exit status 0.
C5_ZeroSimpleTotalCompletes ==
    (pc \in {"done", "failed"} /\ AllCallsSucceeded /\ ReportedTotal(2) = 0) =>
        /\ pc = "done"
        /\ ExitCode = 0
        /\ error = "none"

\* The three summary lines of a completed run.
TotalPatternLine == stdout[Len(stdout) - 5]

TotalSimpleLine == stdout[Len(stdout) - 4]

RatioLine == stdout[Len(stdout) - 3]

\* C6: a completed run prints as pattern total the sum of the output sizes the
\* service reported for the pattern_brained calls, as simple total the sum of
\* those it reported for the simple calls, and as ratio a hundredth nearest to
\* pattern total / simple total with two decimals; 300 and 100 print 3.00, and
\* a catalog of one problem with sizes 50 and 20 prints 50, 20 and 2.50.
C6_SummaryTotalsAndRatio ==
    pc = "done" =>
        LET P == ReportedTotal(1)
            S == ReportedTotal(2)
            q == (100 * P) \div S
        IN  /\ Len(responses) = 2 * N
            /\ S > 0
            /\ TotalPatternLine = "Total pattern-brained tokens: " \o ToString(P)
            /\ TotalSimpleLine = "Total simple tokens: " \o ToString(S)
            /\ \/ /\ RatioLine = "Ratio: " \o Format2f(q) \o "x"
                  /\ 2 * (100 * P - q * S) <= S
               \/ /\ RatioLine = "Ratio: " \o Format2f(q + 1) \o "x"
                  /\ 2 * ((q + 1) * S - 100 * P) <= S
            /\ (P = 300 /\ S = 100) => RatioLine = "Ratio: 3.00x"
            /\ (N = 1 /\ P = 50 /\ S = 20) =>
                    /\ Len(results) = 2
                    /\ TotalPatternLine = "Total pattern-brained tokens: 50"
                    /\ TotalSimpleLine = "Total simple tokens: 20"
                    /\ RatioLine = "Ratio: 2.50x"

C6_Witness ==
    /\ pc = "done"
    /\ N = 1
    /\ responses[1].usage.output_tokens = 50
    /\ responses[2].usage.output_tokens = 20

\* The files that exist in the directory of problem p.
FilesIn(p) ==
    { f \in DOMAIN files : Len(f) = Len(problem_dir(p)) + 1
                            /\ SubSeq(f, 1, Len(problem_dir(p))) = problem_dir(p) }

\* The current run has completed the processing of problem j.
Processed(j) == j < i \/ (j = i /\ (pc = "for" \/ LoopCompleted))

\* C7: the directory of a problem never holds other files than the two
\* artifacts, and whenever the latest run has completed the processing of a
\* problem, whatever the runs before it left there, the directory holds exactly
\* the two artifacts, each with the prompt and with the output size and the
\* response the service gave that run.
C7_ArtifactsOverwritten ==
    \A j \in 1..N :
        /\ FilesIn(catalog[j]) \subseteq {pattern_path(catalog[j]), simple_path(catalog[j])}
        /\ Processed(j) =>
            /\ FilesIn(catalog[j]) = {pattern_path(catalog[j]), simple_path(catalog[j])}
            /\ files[pattern_path(catalog[j])] =
                    [title |-> catalog[j].name \o " - Pattern Brained",
                     prompt |-> catalog[j].prompt,
                     output_tokens |-> responses[2 * j - 1].usage.output_tokens,
                     response |-> responses[2 * j - 1].content[1].text]
            /\ files[simple_path(catalog[j])] =
                    [title |-> catalog[j].name \o " - Simple",
                     prompt |-> catalog[j].prompt,
                     output_tokens |-> responses[2 * j].usage.output_tokens,
                     response |-> responses[2 * j].content[1].text]

\* A second run has processed problem 1 after a first run that completed did,
\* and got another answer than the first.
C7_Witness ==
    /\ run = 2
    /\ Processed(1)
    /\ \E h \in history :
        /\ h.run = 1
        /\ h.results[1].response # responses[1].content[1].text

\* Two completed runs that started in different seconds.
DifferentSeconds(a, b) == a.run # b.run /\ a.second # b.second

\* C8: two completed runs that started in different seconds have different
\* report files; the report of a completed run is in place and holds that run's
\* result sequence as long as no later run started in the same second; and no
\* step of a run changes the report of a run that started in another second.
C8_ReportNames ==
    /\ \A a, b \in history : DifferentSeconds(a, b) => a.results_file # b.results_file
    /\ \A a \in history :
        (\A b \in started : b.run > a.run => b.second # a.second) =>
            /\ a.results_file \in DOMAIN files
            /\ files[a.results_file] = [json |-> a.results]
    /\ \A a \in history : a.run = run =>
            /\ a.results = results
            /\ files[a.results_file] = [json |-> results]

C8_ReportsDoNotCollide ==
    /\ []C8_ReportNames
    /\ [][\A a \in history :
            (\A s \in started : s.run = run => s.second # a.second) =>
                /\ a.results_file \in DOMAIN files'
                /\ files'[a.results_file] = files[a.results_file]]_vars

C8_Witness ==
    /\ pc = "done"
    /\ \E a, b \in history :
        /\ a.run = 1
        /\ b.run = 2
        /\ a.second # b.second
        /\ a.results # b.results
        /\ files[a.results_file] = [json |-> a.results]
        /\ files[b.results_file] = [json |-> b.results]

\* C9: the ratio is computed only after all 2*N calls have returned, all 2*N
\* artifacts and the report have been written; a ZeroDivisionError in the
\* summary leaves all of them on disk.
C9_SummaryAfterPersistence ==
    (pc \in {"summary", "done"} \/ error = "ZeroDivisionError") =>
        /\ Len(calls) = 2 * N
        /\ Len(responses) = 2 * N
        /\ outstanding = {}
        /\ Len(results) = 2 * N
        /\ \A j \in 1..N : ArtifactsWritten(j)
        /\ results_file(timestamp) \in DOMAIN files
        /\ files[results_file(timestamp)] = [json |-> results]

C9_Witness ==
    /\ pc = "failed"
    /\ error = "ZeroDivisionError"
    /\ N = 2
    /\ results_file(timestamp) \in DOMAIN files

\* Every call and every artifact write of the run succeeded.
AllSucceeded ==
    /\ Len(responses) = 2 * N
    /\ \A k \in 1..Len(responses) : responses[k].content # <<>>
    /\ Len(results) = 2 * N
    /\ \A j \in 1..N : ArtifactsWritten(j)

\* C10 as stated: the run's report file exists exactly when every call and
\* every artifact write succeeded, and a report file that exists holds all
\* 2*N results.
C10_ReportIffAllSucceeded ==
    /\ pc \in {"done", "failed"} =>
            (results_file(timestamp) \in DOMAIN files <=> AllSucceeded)
    /\ results_file(timestamp) \in DOMAIN files =>
            /\ files[results_file(timestamp)] = [json |-> results]
            /\ InCatalogOrder(results, N)

\* C10: a run opens its report file only when every call and every artifact
\* write succeeded, so a run that fails in the loop leaves no report file; a
\* report whose write completed holds all 2*N results; a report write that
\* fails leaves no file or a truncated one.
C10_ReportOnlyAfterAllSucceeded ==
    /\ (results_file(timestamp) \in DOMAIN files \/ results_file(timestamp) \in written)
            => AllSucceeded
    /\ (pc = "failed" /\ ~AllSucceeded) => DOMAIN files \cap {results_file(timestamp)} = {}
    /\ LoopCompleted /\ pc # "write_results" =>
            /\ results_file(timestamp) \in DOMAIN files
            /\ files[results_file(timestamp)] = [json |-> results]
            /\ InCatalogOrder(results, N)
    /\ results_file(timestamp) \in DOMAIN files =>
            \/ /\ files[results_file(timestamp)] = [json |-> results]
               /\ InCatalogOrder(results, N)
            \/ /\ files[results_file(timestamp)] = Truncated
               /\ pc = "failed"
               /\ error = "OSError"

C10_Witness ==
    /\ pc = "failed"
    /\ i = 2
    /\ Len(calls) = 3
    /\ ArtifactsWritten(1)
    /\ results_file(timestamp) \notin DOMAIN files

====
